---- MODULE Spec2Model ----
(***************************************************************************)
(* Model of .github/scripts/generate_curated_list.cjs, the signal-based    *)
(* incremental update of curated/curated_list.json (lines 1-205).          *)
(*                                                                         *)
(* JavaScript values are modelled as follows.  An identifier is a tagged   *)
(* record: Num(n) is the number n, Str(n) the decimal string of n and      *)
(* Str(0) a blank string.  `undefined` is the string Undefined; a key that  *)
(* a stored JSON object does not have is Absent (it reads as undefined,    *)
(* and JSON.stringify does not write an undefined value).  null/undefined  *)
(* where an object is expected is Null.                                    *)
(* A file listing is EmptyList ([]) or Listing, a changelog map is         *)
(* EmptyMap ({}) or Changes; all four are truthy in JavaScript.            *)
(***************************************************************************)
EXTENDS Integers, Sequences, FiniteSets, TLC

\* ---------------------------------------------------------------- bounds
\* Number of distinct record identifiers (and longest overlay).
MaxMods == 3
\* Group size of the batch loop.  The script sets 5 (line 13); the model
\* runs it scaled down so that several groups occur within MaxMods entries.
BATCH_SIZE == 2
\* Most failed upstream answers (errors, rate limits, bodies that do not
\* parse) to the per-record requests of one run.
MaxFaults == 2

Ids == 1..MaxMods

\* ---------------------------------------------------------------- values
\* Scalars are strings, objects are records.
Undefined == "undefined"
Absent == "absent"
EmptyList == "[]"
Listing == "files"
EmptyMap == "{}"
Changes == "changelogs"
\* A file: its parsed content, or a file that is missing or does not parse.
File(content) == [readable |-> TRUE, content |-> content]
Unreadable == [readable |-> FALSE, content |-> <<>>]
Null == [null |-> TRUE]

Num(n) == [t |-> "num", v |-> n]
Str(n) == [t |-> "str", v |-> n]

\* String(x): a number becomes its decimal string, a string is unchanged.
String(x) == [t |-> "str", v |-> x.v]

\* JavaScript truthiness.  Of an identifier: the empty string is falsy.
\* Of a scalar: undefined is falsy; [] and {} are truthy.  Of an object:
\* null/undefined is falsy.
TruthyId(x) == x # Str(0)
TruthyVal(x) == x # Undefined
TruthyObj(x) == x # Null

\* a || b on scalars
OrElse(a, b) == IF TruthyVal(a) THEN a ELSE b

\* JSON.parse of a field of a stored object / JSON.stringify of a field:
\* a key that is absent reads as undefined, an undefined value is not
\* written.
ReadField(v) == IF v = Absent THEN Undefined ELSE v
WriteField(v) == IF v = Undefined THEN Absent ELSE v

Fields == {"mod_id", "updated_timestamp", "state", "warningMessage", "files", "changelogs"}
OptionalFields == {"state", "warningMessage", "files", "changelogs"}

JSONParseRecord(r) == [f \in Fields |-> IF f \in OptionalFields THEN ReadField(r[f]) ELSE r[f]]
JSONStringifyRecord(r) == [f \in Fields |-> IF f \in OptionalFields THEN WriteField(r[f]) ELSE r[f]]
JSONParse(s) == [j \in 1..Len(s) |-> JSONParseRecord(s[j])]
JSONStringify(s) == [j \in 1..Len(s) |-> JSONStringifyRecord(s[j])]

\* mod.id && String(mod.id).trim() !== ""   (line 83, "Filter templates")
KeepEntry(mod) == TruthyId(mod.id) /\ String(mod.id) # Str(0)

RECURSIVE Filter(_)
Filter(s) ==
    IF s = <<>> THEN <<>>
    ELSE IF KeepEntry(Head(s)) THEN <<Head(s)>> \o Filter(Tail(s))
    ELSE Filter(Tail(s))

\* A Map built from [key, value] pairs in order: a later pair replaces an
\* earlier one with the same key.  Modelled as a function on its key set.
MapOf(pairs) ==
    [k \in {pairs[j][1] : j \in 1..Len(pairs)} |->
        pairs[CHOOSE j \in 1..Len(pairs) :
                 /\ pairs[j][1] = k
                 /\ \A l \in (j+1)..Len(pairs) : pairs[l][1] # k][2]]

\* Map.get: undefined (here Null, an object is expected) when the key is absent.
MapGet(m, k) == IF k \in DOMAIN m THEN m[k] ELSE Null

\* modsToProcess.map(mod => [String(mod.id), mod])   (line 85)
OverlayPairs(mods) == [j \in 1..Len(mods) |-> <<String(mods[j].id), mods[j]>>]
\* the pairs set by oldJson.forEach(mod => previousDataMap.set(String(mod.mod_id), mod))
CachePairs(mods) == [j \in 1..Len(mods) |-> <<String(mods[j].mod_id), mods[j]>>]

\* ------------------------------------------------------- inputs of a run
\* Overlay entries as the operator writes them (already parsed).
PlainEntry(n) == [id |-> Num(n), state |-> Undefined, warningMessage |-> Undefined]
StateOnlyEntry(n) == [id |-> Str(n), state |-> "broken", warningMessage |-> Undefined]
FullEntry(n) == [id |-> Str(n), state |-> "broken", warningMessage |-> "crashes"]
TemplateEntry == [id |-> Str(0), state |-> Undefined, warningMessage |-> Undefined]

EntryShapes == {"plain", "state", "full"}
Entry(n, shape) ==
    CASE shape = "plain" -> PlainEntry(n)
      [] shape = "state" -> StateOnlyEntry(n)
      [] shape = "full" -> FullEntry(n)

\* The shape of the k-th entry: the shapes follow one another, starting at
\* an offset, so that every entry takes every shape.
ShapeOrder == <<"plain", "state", "full">>
ShapeAt(k, offset) == ShapeOrder[((k + offset) % Len(ShapeOrder)) + 1]

\* Overlays: the tracked identifiers 1..n in this order, with or without a
\* blank template entry in front.
Overlays ==
    {(IF c[3] THEN <<TemplateEntry>> ELSE <<>>) \o [k \in 1..c[1] |-> Entry(k, ShapeAt(k, c[2]))] :
        c \in (0..MaxMods) \X (0..(Len(ShapeOrder) - 1)) \X BOOLEAN}

\* Records of a catalog file written by an earlier run.
CachedRecord(n, files, changelogs) ==
    [mod_id |-> Num(n), updated_timestamp |-> 1, state |-> "normal",
     warningMessage |-> "", files |-> files, changelogs |-> changelogs]

CachedRecords(n) ==
    {CachedRecord(n, Listing, Changes), CachedRecord(n, Absent, Changes),
     CachedRecord(n, Listing, Absent)}

RECURSIVE SeqOfChoice(_, _)
SeqOfChoice(ch, n) ==
    IF n = 0 THEN <<>>
    ELSE SeqOfChoice(ch, n - 1) \o (IF ch[n] = Null THEN <<>> ELSE <<ch[n]>>)

\* Catalog files: at most one record per identifier.
Caches ==
    {SeqOfChoice(ch, MaxMods) :
        ch \in {g \in [Ids -> {Null} \cup UNION {CachedRecords(n) : n \in Ids}] :
                   \A n \in Ids : g[n] \in {Null} \cup CachedRecords(n)}}

\* ------------------------------------------------------ upstream answers
\* What `fetch` and `response.json()` can do: reject (network error),
\* answer with a status, and deliver a body that parses or does not.
Response(status, body) == [neterr |-> FALSE, status |-> status, malformed |-> FALSE, body |-> body]
NetworkError(body) == [neterr |-> TRUE, status |-> 0, malformed |-> FALSE, body |-> body]
MalformedBody(body) == [neterr |-> FALSE, status |-> 200, malformed |-> TRUE, body |-> body]
Ok(resp) == resp.status \in 200..299

\* Result of running a block: a returned value, or a thrown error.
Return(v) == [thrown |-> FALSE, error |-> "", value |-> v]
Throw(e, v) == [thrown |-> TRUE, error |-> e, value |-> v]

InfoBody(n) == [mod_id |-> Num(n), updated_timestamp |-> 2]
FilesBody(files) == [files |-> files]

InfoFaults ==
    {Response(429, Null), Response(404, Null), NetworkError(Null), MalformedBody(Null)}
\* The last one is an answer whose body parses and has no `files` key.
FilesFaults ==
    {Response(404, FilesBody(Undefined)),
     NetworkError(FilesBody(Undefined)), MalformedBody(FilesBody(Undefined)),
     Response(200, FilesBody(Undefined))}
ChangelogFaults ==
    {Response(404, Undefined), NetworkError(Undefined), MalformedBody(Undefined)}

\* ------------------------------------------------------------ API helpers
\* fetchUpdatedModsList (lines 19-34): the identifiers as strings, or []
\* when the call fails.  `data` is the list of mod_id numbers of the body.
fetchUpdatedModsList(resp) ==
    LET try == IF resp.neterr THEN Throw("fetch", {})
               ELSE IF ~Ok(resp) THEN Return({})
               ELSE IF resp.malformed THEN Throw("json", {})
               ELSE Return({String(Num(n)) : n \in resp.body})
    IN  IF try.thrown THEN Return({}) ELSE try

\* Mutant: no catch block, an error of the try block leaves the function.
fetchModDataFromNexusNoCatch(resp) ==
    IF resp.neterr THEN Throw("fetch", Null)
    ELSE IF resp.status = 429 THEN Throw("RATE_LIMIT", Null)
    ELSE IF ~Ok(resp) THEN Return(Null)
    ELSE IF resp.malformed THEN Throw("json", Null)
    ELSE Return(resp.body)

\* fetchModDataFromNexus (lines 36-48).  The throw of RATE_LIMIT stands
\* inside the try block, so the catch block of the same function handles it.
fetchModDataFromNexus(resp) ==
    LET try == IF resp.neterr THEN Throw("fetch", Null)
               ELSE IF resp.status = 429 THEN Throw("RATE_LIMIT", Null)
               ELSE IF ~Ok(resp) THEN Return(Null)
               ELSE IF resp.malformed THEN Throw("json", Null)
               ELSE Return(resp.body)
    IN  IF try.thrown THEN Return(Null) ELSE try

\* Mutant: no catch block, an error of the try block leaves the function.
fetchModFilesFromNexusNoCatch(resp) ==
    IF resp.neterr THEN Throw("fetch", FilesBody(EmptyList))
    ELSE IF ~Ok(resp) THEN Return(FilesBody(EmptyList))
    ELSE IF resp.malformed THEN Throw("json", FilesBody(EmptyList))
    ELSE Return(resp.body)

\* fetchModFilesFromNexus (lines 50-61)
fetchModFilesFromNexus(resp) ==
    LET try == IF resp.neterr THEN Throw("fetch", FilesBody(EmptyList))
               ELSE IF ~Ok(resp) THEN Return(FilesBody(EmptyList))
               ELSE IF resp.malformed THEN Throw("json", FilesBody(EmptyList))
               ELSE Return(resp.body)
    IN  IF try.thrown THEN Return(FilesBody(EmptyList)) ELSE try

\* fetchModChangelogsFromNexus (lines 63-73)
fetchModChangelogsFromNexus(resp) ==
    LET try == IF resp.neterr THEN Throw("fetch", EmptyMap)
               ELSE IF ~Ok(resp) THEN Return(EmptyMap)
               ELSE IF resp.malformed THEN Throw("json", EmptyMap)
               ELSE Return(resp.body)
    IN  IF try.thrown THEN Return(EmptyMap) ELSE try

\* --------------------------------------------------------- classification
\* Lines 112-114.
isNew(cachedMod) == ~TruthyObj(cachedMod)
isUpdatedOnNexus(updated, modId) == modId \in updated
\* Mutant: only the files key is looked at.
isMissingDataFilesOnly(cachedMod) ==
    TruthyObj(cachedMod) /\ ~TruthyVal(cachedMod.files)

isMissingData(cachedMod) ==
    TruthyObj(cachedMod) /\ (~TruthyVal(cachedMod.files) \/ ~TruthyVal(cachedMod.changelogs))

\* Mutant: every entry is queued.
MustFetchAll(cachedMod, updated, modId) == TRUE

\* Line 116.
MustFetch(cachedMod, updated, modId) ==
    isNew(cachedMod) \/ isUpdatedOnNexus(updated, modId) \/ isMissingData(cachedMod)

\* Mutant: the repair case is tested before the change signal.
ReasonMissingFirst(cachedMod, updated, modId) ==
    IF MustFetch(cachedMod, updated, modId)
    THEN IF isNew(cachedMod) THEN "new"
         ELSE IF isMissingData(cachedMod) THEN "missing-data"
         ELSE "updated-upstream"
    ELSE "reuse"

\* Lines 119-121 (the logged reason of a queued entry); "reuse" for the
\* else branch of line 122.
Reason(cachedMod, updated, modId) ==
    IF MustFetch(cachedMod, updated, modId)
    THEN IF isNew(cachedMod) THEN "new"
         ELSE IF isUpdatedOnNexus(updated, modId) THEN "updated-upstream"
         ELSE "missing-data"
    ELSE "reuse"

\* warningInfo ? warningInfo.state : 'normal'   (lines 127, 174)
StateOf(warningInfo) == IF TruthyObj(warningInfo) THEN warningInfo.state ELSE "normal"
\* warningInfo ? warningInfo.warningMessage : ''   (lines 128, 175)
WarningMessageOf(warningInfo) == IF TruthyObj(warningInfo) THEN warningInfo.warningMessage ELSE ""

\* Mutant: the cached record is pushed as it is.
ReuseMergeKeepCached(cachedMod, warningInfo) == cachedMod

\* { ...cachedMod, state: ..., warningMessage: ... }   (lines 125-129)
ReuseMerge(cachedMod, warningInfo) ==
    [cachedMod EXCEPT !.state = StateOf(warningInfo),
                      !.warningMessage = WarningMessageOf(warningInfo)]

\* Mutant: the values are merged as fetched, without `|| []` and `|| {}`.
FreshMergeNoDefaults(modData, filesData, changelogs, warningInfo) ==
    [mod_id |-> modData.mod_id,
     updated_timestamp |-> modData.updated_timestamp,
     state |-> StateOf(warningInfo),
     warningMessage |-> WarningMessageOf(warningInfo),
     files |-> filesData.files,
     changelogs |-> changelogs]

\* The object returned by a batch member (lines 162-178).
FreshMerge(modData, filesData, changelogs, warningInfo) ==
    [mod_id |-> modData.mod_id,
     updated_timestamp |-> modData.updated_timestamp,
     state |-> StateOf(warningInfo),
     warningMessage |-> WarningMessageOf(warningInfo),
     files |-> OrElse(filesData.files, EmptyList),
     changelogs |-> OrElse(changelogs, EmptyMap)]

\* ------------------------------------------------------------------ state
VARIABLES
    overlayFile,      \* mod_warnings.json
    cacheFile,        \* curated/curated_list.json as the run finds it
    outputFile,       \* curated/curated_list.json as this run writes it (Unreadable: not written)
    pc,               \* position of buildCuratedList
    exitCode,         \* process exit status once the run has ended, else -1
    modsToProcess,    \* line 82
    warningsMap,      \* line 85
    previousDataMap,  \* line 88
    updatedSet,       \* line 101
    modsToFetch,      \* line 105
    finalResults,     \* line 106
    i,                \* loop variable of line 140
    apiCallCount,     \* line 138
    tasks,            \* the batch members (line 143), by index in modsToFetch
    reasons,          \* the decision logged for each entry of modsToProcess
    issued,           \* requests sent so far, per endpoint and identifier
    signalCalls,      \* requests sent to the `updated` endpoint
    groups,           \* groups started so far, as sets of indexes in modsToFetch
    delays,           \* inter-batch delays completed, as the group each followed
    faults,           \* abnormal upstream answers so far
    run,              \* which execution of the script this is, counted from 1
    previousRun       \* what the execution before this one left behind

vars == <<overlayFile, cacheFile, outputFile, pc, exitCode, modsToProcess, warningsMap,
          previousDataMap, updatedSet, modsToFetch, finalResults, i, apiCallCount,
          tasks, reasons, issued, signalCalls, groups, delays, faults, run, previousRun>>

\* What no step of one execution changes: the two input files, and which
\* execution this is.
env == <<overlayFile, cacheFile, run, previousRun>>
loaded == <<modsToProcess, warningsMap, previousDataMap>>
classified == <<modsToFetch, reasons>>

Endpoints == {"info", "files", "changelogs"}

IdleTask ==
    [pc |-> "idle", modData |-> Null, filesData |-> FilesBody(Undefined),
     changelogs |-> Undefined, result |-> Null,
     infoAnswer |-> "none", filesFailed |-> FALSE, changelogsFailed |-> FALSE]

Min(a, b) == IF a < b THEN a ELSE b

\* Mutant: the slice is one entry too long.
BatchIndexesOneMore(from, len) == (from + 1)..Min(from + BATCH_SIZE + 1, len)

\* modsToFetch.slice(i, i + BATCH_SIZE), as indexes of modsToFetch
BatchIndexes(from, len) == (from + 1)..Min(from + BATCH_SIZE, len)

\* Before the first execution there is nothing to remember.
NoRun == [output |-> Unreadable, updatedSet |-> {}, modsToFetch |-> <<>>, tasks |-> <<>>]

Init ==
    /\ overlayFile \in {File(o) : o \in Overlays} \cup {Unreadable}
    /\ cacheFile \in {File(c) : c \in Caches} \cup {Unreadable}
    /\ outputFile = Unreadable
    /\ pc = "start"
    /\ exitCode = -1
    /\ modsToProcess = <<>>
    /\ warningsMap = <<>>
    /\ previousDataMap = <<>>
    /\ updatedSet = {}
    /\ modsToFetch = <<>>
    /\ finalResults = <<>>
    /\ i = 0
    /\ apiCallCount = 0
    /\ tasks = <<>>
    /\ reasons = <<>>
    /\ issued = [e \in Endpoints |-> [n \in Ids |-> 0]]
    /\ signalCalls = 0
    /\ groups = <<>>
    /\ delays = <<>>
    /\ faults = 0
    /\ run = 1
    /\ previousRun = NoRun

\* Lines 202-205: a rejection of buildCuratedList ends the process with 1.
Fail ==
    /\ pc' = "failed"
    /\ exitCode' = 1

\* Mutant: an unreadable overlay is taken for an empty list.
LoadInputsOverlayOptional ==
    /\ pc = "start"
    /\ LET mods == IF overlayFile.readable THEN Filter(overlayFile.content) ELSE <<>>
       IN  /\ modsToProcess' = mods
           /\ warningsMap' = MapOf(OverlayPairs(mods))
    /\ previousDataMap' =
         IF ~cacheFile.readable THEN <<>>
         ELSE MapOf(CachePairs(JSONParse(cacheFile.content)))
    /\ pc' = "signal"
    /\ UNCHANGED <<env, outputFile, exitCode, updatedSet, classified, finalResults, i,
                   apiCallCount, tasks, issued, signalCalls, groups, delays, faults>>

\* Mutant: the cache is read outside a try block, an unreadable cache
\* ends the run.
LoadInputsCacheFatal ==
    /\ pc = "start"
    /\ IF ~overlayFile.readable \/ ~cacheFile.readable
       THEN /\ Fail
            /\ UNCHANGED loaded
       ELSE /\ modsToProcess' = Filter(overlayFile.content)
            /\ warningsMap' = MapOf(OverlayPairs(Filter(overlayFile.content)))
            /\ previousDataMap' = MapOf(CachePairs(JSONParse(cacheFile.content)))
            /\ pc' = "signal"
            /\ UNCHANGED exitCode
    /\ UNCHANGED <<env, outputFile, updatedSet, classified, finalResults, i, apiCallCount,
                   tasks, issued, signalCalls, groups, delays, faults>>

\* Lines 80-96: read the overlay (an unreadable file throws), filter the
\* templates, build warningsMap; read the cache (an unreadable file leaves
\* the map empty).
LoadInputs ==
    /\ pc = "start"
    /\ IF ~overlayFile.readable
       THEN /\ Fail
            /\ UNCHANGED loaded
       ELSE /\ modsToProcess' = Filter(overlayFile.content)
            /\ warningsMap' = MapOf(OverlayPairs(Filter(overlayFile.content)))
            /\ previousDataMap' =
                 IF ~cacheFile.readable THEN <<>>
                 ELSE MapOf(CachePairs(JSONParse(cacheFile.content)))
            /\ pc' = "signal"
            /\ UNCHANGED exitCode
    /\ UNCHANGED <<env, outputFile, updatedSet, classified, finalResults, i, apiCallCount,
                   tasks, issued, signalCalls, groups, delays, faults>>

\* Lines 98-101: the one call of the `updated` endpoint.
FetchSignal(resp) ==
    /\ pc = "signal"
    /\ updatedSet' = fetchUpdatedModsList(resp).value
    /\ signalCalls' = signalCalls + 1
    /\ pc' = "classify"
    /\ UNCHANGED <<env, outputFile, exitCode, loaded, classified, finalResults, i,
                   apiCallCount, tasks, issued, groups, delays, faults>>

\* The list of the `updated` endpoint covers the last week (UPDATE_PERIOD,
\* line 12): an execution that follows another at once is given the list
\* the first one was given.
SameWeek(S) == run = 1 \/ {String(Num(n)) : n \in S} = previousRun.updatedSet

SignalAnswers ==
    \/ \E S \in SUBSET Ids : SameWeek(S) /\ FetchSignal(Response(200, S))
    \/ \E resp \in {Response(404, {}), NetworkError({}), MalformedBody({})} : FetchSignal(resp)

\* Lines 108-131, one pass over modsToProcess.  The three results are the
\* queue, the reused records and the logged decisions, each in overlay order.
RECURSIVE ClassifyLoop(_, _, _, _, _)
ClassifyLoop(mods, wmap, pmap, updated, acc) ==
    IF mods = <<>> THEN acc
    ELSE
        LET inputMod == Head(mods)
            modId == String(inputMod.id)
            cachedMod == MapGet(pmap, modId)
            reason == Reason(cachedMod, updated, modId)
        IN  ClassifyLoop(Tail(mods), wmap, pmap, updated,
                IF MustFetch(cachedMod, updated, modId)
                THEN [acc EXCEPT !.fetch = Append(@, inputMod),
                                 !.log = Append(@, reason)]
                ELSE [acc EXCEPT !.results = Append(@, ReuseMerge(cachedMod, MapGet(wmap, modId))),
                                 !.log = Append(@, reason)])

\* Mutant: the counter starts at 0, the call of the `updated` endpoint is
\* not counted.
ClassifyCountFromZero ==
    /\ pc = "classify"
    /\ LET r == ClassifyLoop(modsToProcess, warningsMap, previousDataMap, updatedSet,
                             [fetch |-> <<>>, results |-> <<>>, log |-> <<>>])
       IN  /\ modsToFetch' = r.fetch
           /\ finalResults' = r.results
           /\ reasons' = r.log
           /\ tasks' = [k \in 1..Len(r.fetch) |-> IdleTask]
    /\ apiCallCount' = 0
    /\ i' = 0
    /\ pc' = "loop"
    /\ UNCHANGED <<env, outputFile, exitCode, loaded, updatedSet, issued, signalCalls,
                   groups, delays, faults>>

\* Lines 104-138.
Classify ==
    /\ pc = "classify"
    /\ LET r == ClassifyLoop(modsToProcess, warningsMap, previousDataMap, updatedSet,
                             [fetch |-> <<>>, results |-> <<>>, log |-> <<>>])
       IN  /\ modsToFetch' = r.fetch
           /\ finalResults' = r.results
           /\ reasons' = r.log
           /\ tasks' = [k \in 1..Len(r.fetch) |-> IdleTask]
    /\ apiCallCount' = 1
    /\ i' = 0
    /\ pc' = "loop"
    /\ UNCHANGED <<env, outputFile, exitCode, loaded, updatedSet, issued, signalCalls,
                   groups, delays, faults>>

IdOf(k) == String(modsToFetch[k].id).v

\* Lines 140-147: the loop condition holds; every member of the slice runs
\* up to its first await, which sends its info request.
StartBatch ==
    /\ pc = "loop"
    /\ i < Len(modsToFetch)
    /\ LET batch == BatchIndexes(i, Len(modsToFetch))
       IN  /\ tasks' = [k \in DOMAIN tasks |->
                          IF k \in batch THEN [tasks[k] EXCEPT !.pc = "info"] ELSE tasks[k]]
           /\ issued' = [issued EXCEPT !["info"] =
                          [n \in Ids |-> @[n] + Cardinality({k \in batch : IdOf(k) = n})]]
           /\ groups' = Append(groups, batch)
    /\ pc' = "await"
    /\ UNCHANGED <<env, outputFile, exitCode, loaded, updatedSet, classified, finalResults,
                   i, apiCallCount, signalCalls, delays, faults>>

\* What the upstream did to a request: answered with a body that parses
\* ("ok"), signalled the rate limit ("429"), or failed otherwise.
AnswerKind(resp) ==
    IF resp.neterr THEN "failed"
    ELSE IF resp.status = 429 THEN "429"
    ELSE IF ~Ok(resp) \/ resp.malformed THEN "failed"
    ELSE "ok"

\* Mutant: a failed info fetch is sent again.
InfoSettlesRetry(k, resp) ==
    /\ pc = "await"
    /\ k \in DOMAIN tasks
    /\ tasks[k].pc = "info"
    /\ LET modData == fetchModDataFromNexus(resp).value
       IN  /\ apiCallCount' = apiCallCount + 1
           /\ UNCHANGED <<pc, exitCode>>
           /\ IF ~TruthyObj(modData)
              THEN /\ tasks' = [tasks EXCEPT ![k].infoAnswer = AnswerKind(resp)]
                   /\ issued' = [issued EXCEPT !["info"][IdOf(k)] = @ + 1]
              ELSE /\ tasks' = [tasks EXCEPT ![k].pc = "files", ![k].modData = modData,
                                             ![k].infoAnswer = AnswerKind(resp)]
                   /\ issued' = [issued EXCEPT !["files"][IdOf(k)] = @ + 1]
    /\ faults' = faults + (IF resp \in InfoFaults THEN 1 ELSE 0)
    /\ UNCHANGED <<env, outputFile, loaded, updatedSet, classified, finalResults, i,
                   signalCalls, groups, delays>>

\* Lines 147-153: the info answer of member k arrives.
InfoSettles(k, resp) ==
    /\ pc = "await"
    /\ k \in DOMAIN tasks
    /\ tasks[k].pc = "info"
    /\ LET out == fetchModDataFromNexus(resp)
           modData == out.value
       IN  IF out.thrown
           THEN /\ Fail
                /\ tasks' = [tasks EXCEPT ![k].pc = "rejected",
                                          ![k].infoAnswer = AnswerKind(resp)]
                /\ UNCHANGED <<apiCallCount, issued>>
           ELSE /\ apiCallCount' = apiCallCount + 1
                /\ UNCHANGED <<pc, exitCode>>
                /\ IF ~TruthyObj(modData)
                   THEN /\ tasks' = [tasks EXCEPT ![k].pc = "done",
                                                  ![k].infoAnswer = AnswerKind(resp)]
                        /\ UNCHANGED issued
                   ELSE /\ tasks' = [tasks EXCEPT ![k].pc = "files", ![k].modData = modData,
                                                  ![k].infoAnswer = AnswerKind(resp)]
                        /\ issued' = [issued EXCEPT !["files"][IdOf(k)] = @ + 1]
    /\ faults' = faults + (IF resp \in InfoFaults THEN 1 ELSE 0)
    /\ UNCHANGED <<env, outputFile, loaded, updatedSet, classified, finalResults, i,
                   signalCalls, groups, delays>>

\* Lines 153-157: the files answer of member k arrives.
FilesSettles(k, resp) ==
    /\ pc = "await"
    /\ k \in DOMAIN tasks
    /\ tasks[k].pc = "files"
    /\ LET out == fetchModFilesFromNexus(resp)
       IN  IF out.thrown
           THEN /\ Fail
                /\ tasks' = [tasks EXCEPT ![k].pc = "rejected",
                                          ![k].filesFailed = (AnswerKind(resp) # "ok")]
                /\ UNCHANGED <<apiCallCount, issued>>
           ELSE /\ apiCallCount' = apiCallCount + 1
                /\ tasks' = [tasks EXCEPT ![k].pc = "changelogs",
                                          ![k].filesData = out.value,
                                          ![k].filesFailed = (AnswerKind(resp) # "ok")]
                /\ issued' = [issued EXCEPT !["changelogs"][IdOf(k)] = @ + 1]
                /\ UNCHANGED <<pc, exitCode>>
    /\ faults' = faults + (IF resp \in FilesFaults THEN 1 ELSE 0)
    /\ UNCHANGED <<env, outputFile, loaded, updatedSet, classified, finalResults, i,
                   signalCalls, groups, delays>>

\* Lines 157-178: the changelog answer of member k arrives; the member
\* merges and returns its record.
ChangelogSettles(k, resp) ==
    /\ pc = "await"
    /\ k \in DOMAIN tasks
    /\ tasks[k].pc = "changelogs"
    /\ LET out == fetchModChangelogsFromNexus(resp)
           warningInfo == MapGet(warningsMap, String(modsToFetch[k].id))
       IN  IF out.thrown
           THEN /\ Fail
                /\ tasks' = [tasks EXCEPT ![k].pc = "rejected",
                                          ![k].changelogsFailed = (AnswerKind(resp) # "ok")]
                /\ UNCHANGED apiCallCount
           ELSE /\ apiCallCount' = apiCallCount + 1
                /\ tasks' = [tasks EXCEPT
                       ![k].pc = "done",
                       ![k].changelogs = out.value,
                       ![k].changelogsFailed = (AnswerKind(resp) # "ok"),
                       ![k].result = FreshMerge(tasks[k].modData, tasks[k].filesData,
                                                out.value, warningInfo)]
                /\ UNCHANGED <<pc, exitCode>>
    /\ faults' = faults + (IF resp \in ChangelogFaults THEN 1 ELSE 0)
    /\ UNCHANGED <<env, outputFile, loaded, updatedSet, classified, finalResults, i,
                   signalCalls, groups, delays, issued>>

\* The answers the upstream can give to the pending request of a member.
Answers ==
    \E k \in DOMAIN tasks :
        \/ InfoSettles(k, Response(200, InfoBody(IdOf(k))))
        \/ \E resp \in InfoFaults : faults < MaxFaults /\ InfoSettles(k, resp)
        \/ FilesSettles(k, Response(200, FilesBody(Listing)))
        \/ \E resp \in FilesFaults : faults < MaxFaults /\ FilesSettles(k, resp)
        \/ ChangelogSettles(k, Response(200, Changes))
        \/ \E resp \in ChangelogFaults : faults < MaxFaults /\ ChangelogSettles(k, resp)

\* Mutant: the last result of the batch is not pushed.
RECURSIVE PushAllButLast(_, _, _)
PushAllButLast(results, from, to) ==
    IF from >= to THEN results
    ELSE PushAllButLast(IF TruthyObj(tasks[from].result)
                        THEN Append(results, tasks[from].result) ELSE results,
                        from + 1, to)

\* Mutant: the results of a batch are pushed last member first.
RECURSIVE PushResultsReversed(_, _, _)
PushResultsReversed(results, from, to) ==
    IF from > to THEN results
    ELSE PushResultsReversed(IF TruthyObj(tasks[to].result)
                             THEN Append(results, tasks[to].result) ELSE results,
                             from, to - 1)

RECURSIVE PushResults(_, _, _)
\* batchResults.forEach(res => { if (res) finalResults.push(res); })   (line 182)
PushResults(results, from, to) ==
    IF from > to THEN results
    ELSE PushResults(IF TruthyObj(tasks[from].result)
                     THEN Append(results, tasks[from].result) ELSE results,
                     from + 1, to)

\* Mutant: the loop goes on as soon as one member has settled.
BatchJoinEarly ==
    /\ pc = "await"
    /\ LET batch == BatchIndexes(i, Len(modsToFetch))
       IN  /\ \E k \in batch : tasks[k].pc = "done"
           /\ finalResults' = PushResults(finalResults, i + 1, Min(i + BATCH_SIZE, Len(modsToFetch)))
    /\ IF i + BATCH_SIZE < Len(modsToFetch)
       THEN pc' = "delay" /\ i' = i
       ELSE pc' = "loop" /\ i' = i + BATCH_SIZE
    /\ UNCHANGED <<env, outputFile, exitCode, loaded, updatedSet, classified, apiCallCount,
                   tasks, issued, signalCalls, groups, delays, faults>>

\* Lines 181-187: Promise.all resolves once every member has settled; the
\* results are pushed in the order of the slice; then either the delay
\* starts or the loop variable advances.
BatchJoin ==
    /\ pc = "await"
    /\ LET batch == BatchIndexes(i, Len(modsToFetch))
       IN  /\ \A k \in batch : tasks[k].pc = "done"
           /\ finalResults' = PushResults(finalResults, i + 1, Min(i + BATCH_SIZE, Len(modsToFetch)))
    /\ IF i + BATCH_SIZE < Len(modsToFetch)
       THEN pc' = "delay" /\ i' = i
       ELSE pc' = "loop" /\ i' = i + BATCH_SIZE
    /\ UNCHANGED <<env, outputFile, exitCode, loaded, updatedSet, classified, apiCallCount,
                   tasks, issued, signalCalls, groups, delays, faults>>

\* Lines 184-186 and the increment of line 140: the timer fires.
Delay ==
    /\ pc = "delay"
    /\ delays' = Append(delays, Len(groups))
    /\ i' = i + BATCH_SIZE
    /\ pc' = "loop"
    /\ UNCHANGED <<env, outputFile, exitCode, loaded, updatedSet, classified, finalResults,
                   apiCallCount, tasks, issued, signalCalls, groups, faults>>

\* Mutant: the catalog is written whether or not the loop has ended.
SaveEarly ==
    /\ pc = "loop"
    /\ outputFile' = File(JSONStringify(finalResults))
    /\ pc' = "done"
    /\ exitCode' = 0
    /\ UNCHANGED <<env, loaded, updatedSet, classified, finalResults, i, apiCallCount,
                   tasks, issued, signalCalls, groups, delays, faults>>

\* Mutant: only the records fetched by this run are written.
SaveFetchedOnly ==
    /\ pc = "loop"
    /\ ~(i < Len(modsToFetch))
    /\ outputFile' = File(JSONStringify(SubSeq(finalResults,
                            Len(modsToProcess) - Len(modsToFetch) + 1, Len(finalResults))))
    /\ pc' = "done"
    /\ exitCode' = 0
    /\ UNCHANGED <<env, loaded, updatedSet, classified, finalResults, i, apiCallCount,
                   tasks, issued, signalCalls, groups, delays, faults>>

\* Lines 189-199: the loop has ended; write the catalog and report.
Save ==
    /\ pc = "loop"
    /\ ~(i < Len(modsToFetch))
    /\ outputFile' = File(JSONStringify(finalResults))
    /\ pc' = "done"
    /\ exitCode' = 0
    /\ UNCHANGED <<env, loaded, updatedSet, classified, finalResults, i, apiCallCount,
                   tasks, issued, signalCalls, groups, delays, faults>>

Next ==
    \/ LoadInputs
    \/ SignalAnswers
    \/ Classify
    \/ StartBatch
    \/ Answers
    \/ BatchJoin
    \/ Delay
    \/ Save

Spec == Init /\ [][Next]_vars

\* Every fetch settles and the event loop runs every continuation that
\* is ready: a step that can be taken is taken.
InitFair ==
    /\ Init
    /\ overlayFile \in {File([k \in 1..n |-> Entry(k, ShapeAt(k, 0))]) : n \in 0..MaxMods}
                        \cup {Unreadable}

FairSpec == InitFair /\ [][Next]_vars /\ WF_vars(Next)

\* ---------------------------------------------------- timestamp variant
\* The second script of the file (lines 206-382).  Its helpers (lines
\* 220-262) are those of lines 36-73; its batch loop (lines 291-294 and
\* 358-365) and its save (lines 368-369) are those of lines 140-143 and
\* 181-191, walking modsToProcess: here modsToFetch stands for the list the
\* loop walks.  There is no change signal and no classification loop.

\* The answer of the info endpoint for a mod last updated at time t.
InfoBodyAt(n, t) == [mod_id |-> Num(n), updated_timestamp |-> t]
\* Cached records carry the first of these times.
UpstreamTimestamps == {1, 2}

\* Mutant: the timestamps are not compared.
CacheHitIgnoringTimestamp(cachedMod, modData) ==
    /\ TruthyObj(cachedMod)
    /\ TruthyVal(cachedMod.files)
    /\ TruthyVal(cachedMod.changelogs)

\* The condition of the SMART CACHE CHECK (lines 312-316).
CacheHit(cachedMod, modData) ==
    /\ TruthyObj(cachedMod)
    /\ cachedMod.updated_timestamp = modData.updated_timestamp
    /\ TruthyVal(cachedMod.files)
    /\ TruthyVal(cachedMod.changelogs)

\* The object returned by a batch member (lines 339-355).
TimestampMerge(modData, files, changelogs, warningInfo) ==
    [mod_id |-> modData.mod_id,
     updated_timestamp |-> modData.updated_timestamp,
     state |-> StateOf(warningInfo),
     warningMessage |-> WarningMessageOf(warningInfo),
     files |-> files,
     changelogs |-> changelogs]

\* The overlays of this variant hold no template entry.
InitTimestamp ==
    /\ Init
    /\ overlayFile \in {File([k \in 1..n |-> Entry(k, ShapeAt(k, 0))]) : n \in 0..MaxMods}
                        \cup {Unreadable}

\* Lines 270-288: read the overlay, unfiltered, and the cache.
LoadInputsTimestamp ==
    /\ pc = "start"
    /\ IF ~overlayFile.readable
       THEN /\ Fail
            /\ UNCHANGED <<loaded, modsToFetch, tasks>>
       ELSE /\ modsToProcess' = overlayFile.content
            /\ warningsMap' = MapOf(OverlayPairs(overlayFile.content))
            /\ previousDataMap' =
                 IF ~cacheFile.readable THEN <<>>
                 ELSE MapOf(CachePairs(JSONParse(cacheFile.content)))
            /\ modsToFetch' = overlayFile.content
            /\ tasks' = [k \in 1..Len(overlayFile.content) |-> IdleTask]
            /\ pc' = "loop"
            /\ UNCHANGED exitCode
    /\ UNCHANGED <<env, outputFile, updatedSet, reasons, finalResults, i, apiCallCount,
                   issued, signalCalls, groups, delays, faults>>

\* Lines 298-319 and 338-355: the info answer of member k arrives; on a
\* cache hit the member merges and returns at once.
InfoSettlesTimestamp(k, resp) ==
    /\ pc = "await"
    /\ k \in DOMAIN tasks
    /\ tasks[k].pc = "info"
    /\ LET modData == fetchModDataFromNexus(resp).value
           modId == String(modsToFetch[k].id)
           cachedMod == MapGet(previousDataMap, modId)
       IN  IF ~TruthyObj(modData)
           THEN /\ tasks' = [tasks EXCEPT ![k].pc = "done",
                                          ![k].infoAnswer = AnswerKind(resp)]
                /\ UNCHANGED issued
           ELSE IF CacheHit(cachedMod, modData)
           THEN /\ tasks' = [tasks EXCEPT
                       ![k].pc = "done", ![k].modData = modData,
                       ![k].infoAnswer = AnswerKind(resp),
                       ![k].result = TimestampMerge(modData, cachedMod.files, cachedMod.changelogs,
                                                    MapGet(warningsMap, modId))]
                /\ UNCHANGED issued
           ELSE /\ tasks' = [tasks EXCEPT ![k].pc = "files", ![k].modData = modData,
                                          ![k].infoAnswer = AnswerKind(resp)]
                /\ issued' = [issued EXCEPT !["files"][IdOf(k)] = @ + 1]
    /\ apiCallCount' = apiCallCount + 1
    /\ faults' = faults + (IF resp \in InfoFaults THEN 1 ELSE 0)
    /\ UNCHANGED <<env, outputFile, pc, exitCode, loaded, updatedSet, classified, finalResults,
                   i, signalCalls, groups, delays>>

\* Lines 328-333: the files answer of member k arrives.
FilesSettlesTimestamp(k, resp) ==
    /\ pc = "await"
    /\ k \in DOMAIN tasks
    /\ tasks[k].pc = "files"
    /\ tasks' = [tasks EXCEPT ![k].pc = "changelogs",
                              ![k].filesData = fetchModFilesFromNexus(resp).value,
                              ![k].filesFailed = (AnswerKind(resp) # "ok")]
    /\ apiCallCount' = apiCallCount + 1
    /\ issued' = [issued EXCEPT !["changelogs"][IdOf(k)] = @ + 1]
    /\ faults' = faults + (IF resp \in FilesFaults THEN 1 ELSE 0)
    /\ UNCHANGED <<env, outputFile, pc, exitCode, loaded, updatedSet, classified, finalResults,
                   i, signalCalls, groups, delays>>

\* Lines 333-355: the changelog answer of member k arrives; the member
\* merges and returns its record.
ChangelogSettlesTimestamp(k, resp) ==
    /\ pc = "await"
    /\ k \in DOMAIN tasks
    /\ tasks[k].pc = "changelogs"
    /\ LET changelogs == fetchModChangelogsFromNexus(resp).value
       IN  tasks' = [tasks EXCEPT
               ![k].pc = "done",
               ![k].changelogs = changelogs,
               ![k].changelogsFailed = (AnswerKind(resp) # "ok"),
               ![k].result = TimestampMerge(tasks[k].modData, tasks[k].filesData.files, changelogs,
                                            MapGet(warningsMap, String(modsToFetch[k].id)))]
    /\ apiCallCount' = apiCallCount + 1
    /\ faults' = faults + (IF resp \in ChangelogFaults THEN 1 ELSE 0)
    /\ UNCHANGED <<env, outputFile, pc, exitCode, loaded, updatedSet, classified, finalResults,
                   i, signalCalls, groups, delays, issued>>

AnswersTimestamp ==
    \E k \in DOMAIN tasks :
        \/ \E t \in UpstreamTimestamps :
              InfoSettlesTimestamp(k, Response(200, InfoBodyAt(IdOf(k), t)))
        \/ \E resp \in InfoFaults : faults < MaxFaults /\ InfoSettlesTimestamp(k, resp)
        \/ FilesSettlesTimestamp(k, Response(200, FilesBody(Listing)))
        \/ \E resp \in FilesFaults : faults < MaxFaults /\ FilesSettlesTimestamp(k, resp)
        \/ ChangelogSettlesTimestamp(k, Response(200, Changes))
        \/ \E resp \in ChangelogFaults : faults < MaxFaults /\ ChangelogSettlesTimestamp(k, resp)

NextTimestamp ==
    \/ LoadInputsTimestamp
    \/ StartBatch
    \/ AnswersTimestamp
    \/ BatchJoin
    \/ Delay
    \/ Save

SpecTimestamp == InitTimestamp /\ [][NextTimestamp]_vars

\* ------------------------------------------------- two executions in a row
\* The script is started again after a completed execution (lines 200-205
\* end the first one): the catalog it wrote is the cache the second one
\* reads (both are OUTPUT_FILE_PATH, lines 9, 91 and 191), the overlay is the
\* same file, and every variable of buildCuratedList starts afresh.
NextRun ==
    /\ pc = "done"
    /\ run = 1
    /\ run' = run + 1
    /\ previousRun' = [output |-> outputFile, updatedSet |-> updatedSet,
                       modsToFetch |-> modsToFetch, tasks |-> tasks]
    /\ cacheFile' = outputFile
    /\ outputFile' = Unreadable
    /\ pc' = "start"
    /\ exitCode' = -1
    /\ modsToProcess' = <<>>
    /\ warningsMap' = <<>>
    /\ previousDataMap' = <<>>
    /\ updatedSet' = {}
    /\ modsToFetch' = <<>>
    /\ finalResults' = <<>>
    /\ i' = 0
    /\ apiCallCount' = 0
    /\ tasks' = <<>>
    /\ reasons' = <<>>
    /\ issued' = [e \in Endpoints |-> [n \in Ids |-> 0]]
    /\ signalCalls' = 0
    /\ groups' = <<>>
    /\ delays' = <<>>
    /\ UNCHANGED <<overlayFile, faults>>

\* The first execution finds an overlay without template entries and a
\* catalog with at least one record.
InitTwoRuns ==
    /\ Init
    /\ overlayFile \in {File([k \in 1..n |-> Entry(k, ShapeAt(k, 0))]) : n \in 1..MaxMods}
    /\ cacheFile.readable
    /\ cacheFile.content # <<>>

NextTwoRuns ==
    \/ Next
    \/ NextRun

SpecTwoRuns == InitTwoRuns /\ [][NextTwoRuns]_vars

\* ================================================================ claims
\* The inputs and outputs of the run, read off the files and the requests.

\* n is tracked: the overlay holds an entry with this identifier.
Tracked(n) ==
    /\ overlayFile.readable
    /\ \E j \in 1..Len(overlayFile.content) : overlayFile.content[j].id.v = n
OverlayEntryOf(n) ==
    overlayFile.content[CHOOSE j \in 1..Len(overlayFile.content) : overlayFile.content[j].id.v = n]

\* n has a cached record: the catalog the run started from holds one.
Cached(n) ==
    /\ cacheFile.readable
    /\ \E j \in 1..Len(cacheFile.content) : cacheFile.content[j].mod_id.v = n
CachedRecordOf(n) ==
    cacheFile.content[CHOOSE j \in 1..Len(cacheFile.content) : cacheFile.content[j].mod_id.v = n]
LacksKey(n) == CachedRecordOf(n).files = Absent \/ CachedRecordOf(n).changelogs = Absent
CompleteCached(n) == Cached(n) /\ ~LacksKey(n)

InSignal(n) == Str(n) \in updatedSet

\* The classification loop has run.
Classified == pc \in {"loop", "await", "delay", "done"}
PositionOf(n) == CHOOSE j \in 1..Len(modsToProcess) : String(modsToProcess[j].id) = Str(n)
ReasonOf(n) == reasons[PositionOf(n)]
Queued(n) == \E k \in 1..Len(modsToFetch) : String(modsToFetch[k].id) = Str(n)
TaskOf(n) == tasks[CHOOSE k \in 1..Len(modsToFetch) : String(modsToFetch[k].id) = Str(n)]
InfoSucceeded(n) == Queued(n) /\ TaskOf(n).infoAnswer = "ok"
InfoFailed(n) == Queued(n) /\ TaskOf(n).infoAnswer \in {"failed", "429"}

RecordsOf(file, n) == {j \in 1..Len(file.content) : file.content[j].mod_id.v = n}
OutputRecordOf(n) == outputFile.content[CHOOSE j \in RecordsOf(outputFile, n) : TRUE]
Completed == pc = "done"

\* C1: the classifier decides by the first matching rule: no cached record
\* -> new; in the change signal -> updated-upstream; files or changelogs
\* key missing -> missing-data; otherwise reuse.  An entry is queued exactly
\* when it is not reused, and a complete record in the change signal whose
\* info fetch succeeded has had all three requests issued once the run ends.
C1_ClassifierPriority ==
    Classified =>
        \A n \in Ids : Tracked(n) =>
            /\ ReasonOf(n) =
                 (IF ~Cached(n) THEN "new"
                  ELSE IF InSignal(n) THEN "updated-upstream"
                  ELSE IF LacksKey(n) THEN "missing-data"
                  ELSE "reuse")
            /\ Queued(n) <=> ReasonOf(n) # "reuse"
            /\ (Completed /\ CompleteCached(n) /\ InSignal(n) /\ InfoSucceeded(n)) =>
                 \A e \in Endpoints : issued[e][n] = 1

C1_Witness ==
    /\ Completed
    /\ \E n \in Ids :
         /\ Tracked(n) /\ CompleteCached(n) /\ InSignal(n) /\ InfoSucceeded(n)
         /\ ReasonOf(n) = "updated-upstream"
    /\ \E n \in Ids : Tracked(n) /\ ~Cached(n) /\ InSignal(n)
    /\ \E n \in Ids : Tracked(n) /\ Cached(n) /\ ~InSignal(n) /\ LacksKey(n)

\* C2 as stated: every cached record that lacks the files key or the
\* changelogs key gets the reason missing-data, in the change signal or not.
C2_MissingDataRegardlessOfSignal ==
    Classified =>
        \A n \in Ids : (Tracked(n) /\ Cached(n) /\ LacksKey(n)) =>
            ReasonOf(n) = "missing-data"

\* C2, amended: every cached record that lacks the files key or the
\* changelogs key is queued for fetching, in the change signal or not; its
\* reason is missing-data when its identifier is not in the change signal
\* and updated-upstream when it is.
C2_MissingDataIsFetched ==
    Classified =>
        \A n \in Ids : (Tracked(n) /\ Cached(n) /\ LacksKey(n)) =>
            /\ Queued(n)
            /\ ReasonOf(n) = (IF InSignal(n) THEN "updated-upstream" ELSE "missing-data")

C2_Witness ==
    /\ Classified
    /\ \E n \in Ids : Tracked(n) /\ Cached(n) /\ CachedRecordOf(n).changelogs = Absent
                     /\ InSignal(n) /\ Queued(n)
    /\ \E n \in Ids : Tracked(n) /\ Cached(n) /\ CachedRecordOf(n).changelogs = Absent
                     /\ ~InSignal(n) /\ Queued(n)

\* C3: a tracked entry with a complete cached record whose identifier is
\* not in the change signal is classified reuse, and at no point of the run
\* has a files or a changelog request been issued for it.
C3_ReuseIssuesNoFetch ==
    pc \notin {"start", "signal", "failed"} =>
        \A n \in Ids : (Tracked(n) /\ CompleteCached(n) /\ ~InSignal(n)) =>
            /\ Classified => ReasonOf(n) = "reuse" /\ ~Queued(n)
            /\ issued["files"][n] = 0
            /\ issued["changelogs"][n] = 0

C3_Witness ==
    /\ Completed
    /\ \E n \in Ids : Tracked(n) /\ CompleteCached(n) /\ ~InSignal(n) /\ ReasonOf(n) = "reuse"
    /\ \E n \in Ids : issued["files"][n] = 1 /\ issued["changelogs"][n] = 1

\* C4 as stated: an info answer with status 429 is not turned into the
\* ordinary null; it rejects the member, and the run stops with a failure.
C4_RateLimitStopsRun ==
    \A k \in DOMAIN tasks : tasks[k].infoAnswer = "429" =>
        /\ tasks[k].pc = "rejected"
        /\ pc = "failed"
        /\ exitCode = 1

Included(n) == Cardinality(RecordsOf(outputFile, n)) = 1
NotInOutput(n) == RecordsOf(outputFile, n) = {}

\* C5 as stated: a completed run writes exactly one record for each tracked
\* entry with a successful info fetch or a usable (complete) cached record;
\* only entries without a cached record whose info fetch failed have none.
C5_OneRecordPerFetchedOrCached ==
    Completed =>
        \A n \in Ids : Tracked(n) =>
            /\ (InfoSucceeded(n) \/ CompleteCached(n)) => Included(n)
            /\ NotInOutput(n) => (~Cached(n) /\ InfoFailed(n))

\* C5, amended: a completed run writes exactly one record for each tracked
\* entry that had a successful info fetch in this run or was reused (a
\* complete cached record, identifier not in the change signal), and no
\* other record; the tracked entries without a record are exactly the
\* queued entries whose info fetch failed, cached or not.
C5_OneRecordPerFetchedOrReused ==
    Completed =>
        /\ outputFile.readable
        /\ \A n \in Ids : Tracked(n) =>
             /\ (InfoSucceeded(n) \/ (CompleteCached(n) /\ ~InSignal(n))) => Included(n)
             /\ ~Included(n) => NotInOutput(n)
             /\ NotInOutput(n) <=> InfoFailed(n)
        /\ \A n \in Ids : ~Tracked(n) => NotInOutput(n)

C5_Witness ==
    /\ Completed
    /\ \E n \in Ids : Tracked(n) /\ CompleteCached(n) /\ InSignal(n) /\ InfoFailed(n)
                      /\ NotInOutput(n)
    /\ \E n \in Ids : Tracked(n) /\ CompleteCached(n) /\ ~InSignal(n) /\ Included(n)
    /\ \E n \in Ids : Tracked(n) /\ InfoSucceeded(n) /\ Included(n)

\* C6: when the info fetch of a queued entry fails (not by the rate limit),
\* its member settles with no result, no files and no changelog request is
\* issued for it, the run does not fail, and a completed run has no record
\* for it while every member has settled and every member whose info fetch
\* succeeded has its record in the written catalog.
C6_InfoFailureDropsRecord ==
    \A k \in DOMAIN tasks : tasks[k].infoAnswer = "failed" =>
        /\ tasks[k].pc = "done"
        /\ tasks[k].result = Null
        /\ pc # "failed"
        /\ exitCode # 1
        /\ issued["files"][IdOf(k)] = 0
        /\ issued["changelogs"][IdOf(k)] = 0
        /\ Completed =>
             /\ outputFile.readable
             /\ NotInOutput(IdOf(k))
             /\ \A o \in DOMAIN tasks :
                  /\ tasks[o].pc = "done"
                  /\ tasks[o].infoAnswer = "ok" => Included(IdOf(o))

C6_Witness ==
    /\ Completed
    /\ Len(groups) >= 2
    /\ \E k \in groups[1] :
         /\ tasks[k].infoAnswer = "failed"
         /\ \E o \in groups[1] : tasks[o].infoAnswer = "ok" /\ Included(IdOf(o))
         /\ \E o \in groups[2] : tasks[o].infoAnswer = "ok" /\ Included(IdOf(o))

FinalRecordsOf(n) == {j \in 1..Len(finalResults) : finalResults[j].mod_id.v = n}

\* C7: the record of a reused entry carries the state and warningMessage of
\* the overlay entry, in memory and in the written catalog, and every other
\* field of the cached record unchanged.
C7_ReuseTakesOverlayAnnotations ==
    Classified =>
        \A n \in Ids : (Tracked(n) /\ CompleteCached(n) /\ ~InSignal(n)) =>
            /\ Cardinality(FinalRecordsOf(n)) = 1
            /\ \A j \in FinalRecordsOf(n) :
                 /\ finalResults[j].state = OverlayEntryOf(n).state
                 /\ finalResults[j].warningMessage = OverlayEntryOf(n).warningMessage
            /\ Completed =>
                 /\ Included(n)
                 /\ ReadField(OutputRecordOf(n).state) = OverlayEntryOf(n).state
                 /\ ReadField(OutputRecordOf(n).warningMessage) = OverlayEntryOf(n).warningMessage
                 /\ \A f \in Fields \ {"state", "warningMessage"} :
                      OutputRecordOf(n)[f] = CachedRecordOf(n)[f]

C7_Witness ==
    /\ Completed
    /\ \E n \in Ids :
         /\ Tracked(n) /\ CompleteCached(n) /\ ~InSignal(n)
         /\ OverlayEntryOf(n).state = "broken"
         /\ CachedRecordOf(n).state = "normal"
         /\ Included(n)
         /\ OutputRecordOf(n).state = "broken"
         /\ OutputRecordOf(n).warningMessage = "crashes"

\* C8 as stated: where the overlay entry supplies no state the written
\* record carries "normal", and where it supplies no warningMessage the
\* written record carries "", for reused and for fetched records.
C8_DefaultsApplied ==
    Completed =>
        \A n \in Ids : (Tracked(n) /\ Included(n)) =>
            /\ OverlayEntryOf(n).state = Undefined => OutputRecordOf(n).state = "normal"
            /\ OverlayEntryOf(n).warningMessage = Undefined =>
                 OutputRecordOf(n).warningMessage = ""

Ceil(a, b) == (a + b - 1) \div b
\* The groups started so far are the consecutive slices of the queue, each
\* of at most B entries and each but the last of the queue of exactly B.
GroupsAreSlices ==
    /\ Len(groups) <= Ceil(Len(modsToFetch), BATCH_SIZE)
    /\ \A g \in 1..Len(groups) :
         /\ groups[g] = ((g - 1) * BATCH_SIZE + 1)..Min(g * BATCH_SIZE, Len(modsToFetch))
         /\ Cardinality(groups[g]) <= BATCH_SIZE
         /\ g < Ceil(Len(modsToFetch), BATCH_SIZE) => Cardinality(groups[g]) = BATCH_SIZE

\* C9 as stated: a completed run with N queued entries has issued
\* ceil(N/B) groups, each of at most B entries and all but the last of B,
\* and performed ceil(N/B) - 1 delays.
C9_GroupsAndDelays ==
    Completed =>
        /\ GroupsAreSlices
        /\ Len(groups) = Ceil(Len(modsToFetch), BATCH_SIZE)
        /\ Len(delays) = Ceil(Len(modsToFetch), BATCH_SIZE) - 1

\* C9, amended: a completed run with N queued entries has issued ceil(N/B)
\* groups, each of at most B entries and all but the last of B; with N >= 1
\* it has performed ceil(N/B) - 1 delays, one after each group but the
\* last, and with N = 0 it has issued no group and performed no delay.
C9_GroupsAndDelaysFromOne ==
    /\ Classified => GroupsAreSlices
    /\ \A d \in 1..Len(delays) : delays[d] = d /\ d < Len(groups) + (IF pc = "loop" THEN 1 ELSE 0)
    /\ Completed =>
         /\ Len(groups) = Ceil(Len(modsToFetch), BATCH_SIZE)
         /\ Len(modsToFetch) >= 1 => Len(delays) = Ceil(Len(modsToFetch), BATCH_SIZE) - 1
         /\ Len(modsToFetch) = 0 => groups = <<>> /\ delays = <<>>

C9_Witness ==
    /\ Completed
    /\ Len(modsToFetch) > BATCH_SIZE
    /\ Len(groups) >= 2
    /\ Len(delays) >= 1

\* C10: when the info fetch of a queued entry succeeds and its files or its
\* changelog fetch fails, the run does not fail, the member returns a
\* record with an empty file listing or an empty changelog map in place of
\* the failed value, and a completed run has written that record.
C10_FilesAndChangelogDegrade ==
    \A k \in DOMAIN tasks : (tasks[k].filesFailed \/ tasks[k].changelogsFailed) =>
        /\ tasks[k].infoAnswer = "ok"
        /\ tasks[k].pc # "rejected"
        /\ pc # "failed"
        /\ tasks[k].pc = "done" =>
             /\ TruthyObj(tasks[k].result)
             /\ tasks[k].filesFailed => tasks[k].result.files = EmptyList
             /\ tasks[k].changelogsFailed => tasks[k].result.changelogs = EmptyMap
        /\ Completed =>
             /\ Included(IdOf(k))
             /\ tasks[k].filesFailed => OutputRecordOf(IdOf(k)).files = EmptyList
             /\ tasks[k].changelogsFailed => OutputRecordOf(IdOf(k)).changelogs = EmptyMap

C10_Witness ==
    /\ Completed
    /\ \E k \in DOMAIN tasks :
         /\ tasks[k].filesFailed /\ tasks[k].changelogsFailed
         /\ Included(IdOf(k))
         /\ OutputRecordOf(IdOf(k)).files = EmptyList
         /\ OutputRecordOf(IdOf(k)).changelogs = EmptyMap

\* ------------------------------------------------ two executions in a row
SecondRun == run = 2
FinalRecords(file) == {file.content[j] : j \in 1..Len(file.content)}
\* The info fetch of n failed in the first execution.
InfoFailedBefore(n) ==
    \E k \in 1..Len(previousRun.modsToFetch) :
        /\ String(previousRun.modsToFetch[k].id) = Str(n)
        /\ previousRun.tasks[k].infoAnswer # "ok"

C12_UnreadableCacheIsEmpty ==
    (overlayFile.readable /\ ~cacheFile.readable) =>
        /\ pc # "failed"
        /\ pc # "start" => previousDataMap = <<>>
        /\ Classified =>
             \A n \in Ids : Tracked(n) => ReasonOf(n) = "new" /\ Queued(n)
        /\ Completed =>
             /\ exitCode = 0
             /\ outputFile.readable
             /\ \A n \in Ids : Tracked(n) =>
                  /\ issued["info"][n] = 1
                  /\ Included(n) <=> InfoSucceeded(n)

C12_Witness ==
    /\ ~cacheFile.readable
    /\ Completed
    /\ outputFile.readable
    /\ \E n \in Ids : Tracked(n) /\ ReasonOf(n) = "new" /\ Included(n)

\* C13: when the overlay file cannot be read or parsed, the run ends with
\* the failure exit status; no request has been sent, to the change signal
\* or for a record, and the catalog has not been written.
C13_UnreadableOverlayIsFatal ==
    ~overlayFile.readable =>
        /\ pc \in {"start", "failed"}
        /\ pc = "failed" => exitCode = 1
        /\ signalCalls = 0
        /\ \A e \in Endpoints : \A n \in Ids : issued[e][n] = 0
        /\ apiCallCount = 0
        /\ ~outputFile.readable

C13_Witness ==
    /\ ~overlayFile.readable
    /\ pc = "failed"
    /\ exitCode = 1
    /\ signalCalls = 0
    /\ ~outputFile.readable

\* The members with a request in flight.
InFlight == {k \in DOMAIN tasks : tasks[k].pc \in {"info", "files", "changelogs"}}

\* C14: in every interleaving, no member of a group has sent a request
\* before every member of the group before it has settled, and the requests
\* for records in flight are never more than BATCH_SIZE.
C14_BatchBarrier ==
    /\ Cardinality(InFlight) <= BATCH_SIZE
    /\ \A k \in DOMAIN tasks :
         tasks[k].pc # "idle" => \E g \in 1..Len(groups) : k \in groups[g]
    /\ \A g \in 1..Len(groups) :
         /\ \A k \in groups[g] : tasks[k].pc # "idle"
         /\ g < Len(groups) => \A k \in groups[g] : tasks[k].pc = "done"
    /\ \A k \in DOMAIN tasks :
         tasks[k].pc = "idle" => \A e \in Endpoints :
             issued[e][IdOf(k)] = 0

C14_Witness ==
    /\ Len(groups) = 2
    /\ Cardinality(groups[1]) = BATCH_SIZE
    /\ InFlight # {}
    /\ InFlight = groups[2]
    /\ \A k \in groups[1] : tasks[k].pc = "done"

\* The state of a tracked entry: pending until the classification loop has
\* run; included once finalResults holds its record; dropped once its
\* member has returned null; fetching otherwise.
InResults(n) == \E j \in 1..Len(finalResults) : finalResults[j].mod_id.v = n
StatusOf(n) ==
    IF ~Classified THEN "pending"
    ELSE IF InResults(n) THEN "included"
    ELSE IF Queued(n) /\ TaskOf(n).pc = "done" /\ ~TruthyObj(TaskOf(n).result) THEN "dropped"
    ELSE "fetching"
Terminal(n) == StatusOf(n) \in {"included", "dropped"}

\* The steps of one entry: pending to fetching, or to included when it is
\* reused; fetching to included, or to dropped when its info fetch failed;
\* an included or dropped entry stays as it is.
EntryStep(n) ==
    \/ StatusOf(n)' = StatusOf(n)
    \/ StatusOf(n) = "pending" /\ StatusOf(n)' = "fetching" /\ Queued(n)'
    \/ StatusOf(n) = "pending" /\ StatusOf(n)' = "included" /\ ~Queued(n)'
    \/ StatusOf(n) = "fetching" /\ StatusOf(n)' = "included" /\ InfoSucceeded(n)'
    \/ StatusOf(n) = "fetching" /\ StatusOf(n)' = "dropped" /\ InfoFailed(n)'

\* C15: every tracked entry goes from pending to reuse or fetching and on
\* to included or dropped; it is dropped only out of fetching and only when
\* its info fetch failed; a reused entry is included; none of the three
\* endpoints is called more than once for an identifier; and, every fetch
\* settling, every tracked entry ends included or dropped, never both.
C15_EntryLifecycle ==
    /\ [][\A n \in Ids : Tracked(n) => EntryStep(n)]_vars
    /\ [](\A n \in Ids : \A e \in Endpoints : issued[e][n] <= 1)
    /\ [](Classified => \A n \in Ids : (Tracked(n) /\ ReasonOf(n) = "reuse") =>
             StatusOf(n) = "included")
    /\ [](Completed => \A n \in Ids : Tracked(n) =>
             /\ Terminal(n)
             /\ StatusOf(n) = "included" <=> Included(n)
             /\ StatusOf(n) = "dropped" <=> NotInOutput(n))
    /\ overlayFile.readable ~> (Completed /\ \A n \in Ids : Tracked(n) => Terminal(n))

C15_Witness ==
    /\ Completed
    /\ \E n \in Ids : Tracked(n) /\ ReasonOf(n) = "reuse" /\ StatusOf(n) = "included"
    /\ \E n \in Ids : Tracked(n) /\ Queued(n) /\ StatusOf(n) = "included"
    /\ \E n \in Ids : Tracked(n) /\ Queued(n) /\ StatusOf(n) = "dropped"

\* C16: the catalog is written at most once in a run, as the whole of
\* finalResults, and only when the last group has settled: never while a
\* group is waiting or in flight, and never in a run that ends in failure.
C16_SingleFinalWrite ==
    /\ [](outputFile.readable =>
             /\ pc = "done"
             /\ outputFile = File(JSONStringify(finalResults))
             /\ InFlight = {}
             /\ \A k \in DOMAIN tasks : tasks[k].pc = "done"
             /\ Len(groups) = Ceil(Len(modsToFetch), BATCH_SIZE)
             /\ Len(finalResults) =
                  Cardinality({n \in Ids : Tracked(n) /\ (~Queued(n) \/ InfoSucceeded(n))}))
    /\ [](pc = "failed" => ~outputFile.readable)
    /\ [](Completed => outputFile.readable)
    /\ [][outputFile.readable => outputFile' = outputFile]_vars

C16_Witness ==
    /\ outputFile.readable
    /\ Len(groups) = 2
    /\ Len(outputFile.content) = MaxMods
    /\ \A k \in DOMAIN tasks : tasks[k].pc = "done"

\* The requests for records sent so far, for the identifiers 1..n.
RECURSIVE IssuedUpTo(_)
IssuedUpTo(n) ==
    IF n = 0 THEN 0
    ELSE issued["info"][n] + issued["files"][n] + issued["changelogs"][n] + IssuedUpTo(n - 1)

\* C18: no increment of apiCallCount is lost: in every interleaving the
\* counter is the call of the change signal plus the answered requests for
\* records, and at the end of a completed run it is 1, plus the number of
\* queued entries, plus twice the number of them whose info fetch succeeded.
C18_ApiCallCount ==
    Classified =>
        /\ apiCallCount = signalCalls + IssuedUpTo(MaxMods) - Cardinality(InFlight)
        /\ Completed =>
             apiCallCount = 1 + Len(modsToFetch)
                              + 2 * Cardinality({k \in DOMAIN tasks : tasks[k].infoAnswer = "ok"})

C18_Witness ==
    /\ Completed
    /\ Len(modsToFetch) = MaxMods
    /\ Cardinality({k \in DOMAIN tasks : tasks[k].infoAnswer = "ok"}) = 2
    /\ apiCallCount = 1 + MaxMods + 4

\* The identifiers of a sequence of records, and the tracked identifiers
\* in the order of the overlay and of the queue.
IdsOf(records) == [j \in 1..Len(records) |-> records[j].mod_id.v]
OverlayOrder ==
    SelectSeq([j \in 1..Len(overlayFile.content) |-> overlayFile.content[j].id.v],
              LAMBDA n : n \in Ids)
QueueOrder == [k \in 1..Len(modsToFetch) |-> IdOf(k)]

\* C19: the order of the records does not depend on the order in which
\* the fetches complete: in every interleaving the reused records come
\* first, in overlay order, and the fetched ones follow in queue order.
C19_OutputOrder ==
    Classified =>
        /\ IdsOf(finalResults) =
             SelectSeq(OverlayOrder, LAMBDA n : ~Queued(n))
               \o SelectSeq(QueueOrder, LAMBDA n : InResults(n))
        /\ Completed =>
             IdsOf(outputFile.content) =
                SelectSeq(OverlayOrder, LAMBDA n : ~Queued(n))
                  \o SelectSeq(QueueOrder, LAMBDA n : InfoSucceeded(n))

C19_Witness ==
    /\ Completed
    /\ IdsOf(outputFile.content) = <<2, 1, 3>>
    /\ Queued(1) /\ ~Queued(2) /\ Queued(3)

\* The record the first execution wrote for n.
WrittenBefore(n) == RecordsOf(previousRun.output, n) # {}
RecordWrittenBefore(n) ==
    previousRun.output.content[CHOOSE j \in RecordsOf(previousRun.output, n) : TRUE]

\* C20: every record the run writes, reused or fetched, whatever the
\* answers to its files and changelog requests, has a files value and a
\* changelogs value the classifier takes as present; so no record written
\* by one execution is classified missing-data by the next.
C20_WrittenRecordsComplete ==
    /\ \A k \in DOMAIN tasks :
         TruthyObj(tasks[k].result) => ~isMissingData(tasks[k].result)
    /\ \A j \in 1..Len(finalResults) : ~isMissingData(finalResults[j])
    /\ outputFile.readable =>
         \A j \in 1..Len(outputFile.content) :
             ~isMissingData(JSONParseRecord(outputFile.content[j]))
    /\ (SecondRun /\ Classified) =>
         \A n \in Ids : (Tracked(n) /\ WrittenBefore(n)) =>
             /\ ReasonOf(n) # "missing-data"
             /\ ~InSignal(n) => ReasonOf(n) = "reuse"

C20_Witness ==
    /\ SecondRun /\ Classified
    /\ \E n \in Ids :
         /\ Tracked(n) /\ WrittenBefore(n)
         /\ RecordWrittenBefore(n).files = EmptyList
         /\ RecordWrittenBefore(n).changelogs = EmptyMap
         /\ ReasonOf(n) = "reuse"
    /\ \E n \in Ids :
         /\ Tracked(n) /\ WrittenBefore(n)
         /\ RecordWrittenBefore(n).updated_timestamp = 1
         /\ ReasonOf(n) = "reuse"

\* The info answer of the member of n held another time than the cached
\* record of n.
TimestampDiffers(n) ==
    CachedRecordOf(n).updated_timestamp # TaskOf(n).modData.updated_timestamp
FreshFetchRequired(n) == ~Cached(n) \/ TimestampDiffers(n) \/ LacksKey(n)

\* C17: the timestamp variant sends exactly one info request for every
\* tracked entry, also when every entry is served from the cache; for an
\* entry whose info fetch succeeded it sends the files and the changelog
\* request exactly when there is no cached record, or the fetched
\* updated_timestamp differs from the cached one, or the cached record
\* lacks files or changelogs; otherwise it sends neither and the record
\* carries the cached files and changelogs.
C17_TimestampCacheCheck ==
    /\ \A n \in Ids : issued["info"][n] <= 1
    /\ Completed => \A n \in Ids : Tracked(n) => issued["info"][n] = 1
    /\ \A n \in Ids : (Tracked(n) /\ pc # "start" /\ TaskOf(n).infoAnswer # "ok") =>
         issued["files"][n] = 0 /\ issued["changelogs"][n] = 0
    /\ \A n \in Ids : (Tracked(n) /\ pc # "start" /\ TaskOf(n).infoAnswer = "ok") =>
         /\ issued["files"][n] = (IF FreshFetchRequired(n) THEN 1 ELSE 0)
         /\ TaskOf(n).pc = "done" =>
              issued["changelogs"][n] = (IF FreshFetchRequired(n) THEN 1 ELSE 0)
         /\ ~FreshFetchRequired(n) =>
              /\ TaskOf(n).pc = "done"
              /\ TaskOf(n).result.files = CachedRecordOf(n).files
              /\ TaskOf(n).result.changelogs = CachedRecordOf(n).changelogs
              /\ Completed =>
                   /\ OutputRecordOf(n).files = CachedRecordOf(n).files
                   /\ OutputRecordOf(n).changelogs = CachedRecordOf(n).changelogs

C17_Witness ==
    /\ Completed
    /\ Len(modsToProcess) = MaxMods
    /\ \A n \in Ids : TaskOf(n).infoAnswer = "ok"
    /\ \E n \in Ids : ~FreshFetchRequired(n) /\ issued["files"][n] = 0
    /\ \E n \in Ids : CompleteCached(n) /\ TimestampDiffers(n) /\ issued["changelogs"][n] = 1
    /\ \E n \in Ids : Cached(n) /\ LacksKey(n) /\ ~TimestampDiffers(n) /\ issued["files"][n] = 1

====
